---- MODULE Spec2Model ----
\* A model of the closure-studio plugin (src/src/index.ts): the startup token
\* path, the reconnect loop around connectOnce, the token refresh, the
\* TextDecoder + eventsource-parser read loop and the onEvent handler.
\*
\* Text is a sequence of tokens: each token stands for a run of characters
\* without line feed ("event", ":", a JSON payload, ...) or for one line feed.
\* Bytes on the wire are the same tokens, plus the two bytes of one two-byte
\* UTF-8 character, which the TextDecoder joins.
EXTENDS Integers, Sequences, FiniteSets, TLC

\* ------------------------------------------------------------------ bounds

\* Most consecutive failed connection attempts explored.
MaxAttempts == 6
\* Most consecutive (connect, end-of-stream) cycles explored.
MaxEofRun == 3
\* The two caps above, as used where the decoder's inputs are wide.
MaxDecoderRun == 1
\* Most tokens the parser's data buffer / incomplete line may hold.
MaxData == 2
MaxLine == 4

\* --------------------------------------------------------------- constants

LF == "\n"
SP == " "
\* One two-byte UTF-8 character (U+00E9) and the replacement character.
LeadByte == "0xC3"
ContByte == "0xA9"
EAcute == "U+00E9"
FFFD == "U+FFFD"

\* JSON payloads carried in data: lines.
HELLO == "{\"content\":\"hello\"}"
EMPTYC == "{\"content\":\"\"}"
NOC == "{}"
NULLJ == "null"
GAME1 == "[{\"status\":{\"nick_name\":\"A\",\"level\":5,\"text\":\"online\"}}]"
BAD == "{oops"

\* HTTP statuses an error may carry; 0 stands for an error with no status.
Statuses == {0, 401, 403, 500}
\* Tokens the login endpoint may return, and what the token file may hold
\* at startup.
LoginTokens == {"t1", "t2"}
FileTokens == {"", "t0"}
\* Values of Math.floor(Math.random() * 500) explored.
JitterSamples == {0, 499}

Min(a, b) == IF a < b THEN a ELSE b

\* -------------------------------------------------------------- TextDecoder

\* decoder.decode(chunk, {stream: true}): pending is the lead byte kept
\* from the previous chunk, if any.
RECURSIVE decode(_, _)
decode(pending, bytes) ==
  IF bytes = <<>> THEN [text |-> <<>>, pending |-> pending]
  ELSE LET b == Head(bytes)
           rest == Tail(bytes)
       IN IF pending # <<>>
          THEN IF b = ContByte
               THEN LET r == decode(<<>>, rest)
                    IN [text |-> <<EAcute>> \o r.text, pending |-> r.pending]
               ELSE LET r == decode(<<>>, bytes)
                    IN [text |-> <<FFFD>> \o r.text, pending |-> r.pending]
          ELSE IF b = LeadByte THEN decode(<<b>>, rest)
          ELSE IF b = ContByte
               THEN LET r == decode(<<>>, rest)
                    IN [text |-> <<FFFD>> \o r.text, pending |-> r.pending]
               ELSE LET r == decode(<<>>, rest)
                    IN [text |-> <<b>> \o r.text, pending |-> r.pending]

\* decoder.decode() with no argument: the end-of-stream flush.
decodeTail(pending) == IF pending # <<>> THEN <<FFFD>> ELSE <<>>

\* --------------------------------------------------------------- JSON.parse

IsSpace(t) == t = LF \/ t = SP

RECURSIVE TrimLeft(_)
TrimLeft(s) == IF s # <<>> /\ IsSpace(Head(s)) THEN TrimLeft(Tail(s)) ELSE s

RECURSIVE TrimRight(_)
TrimRight(s) ==
  IF s # <<>> /\ IsSpace(s[Len(s)]) THEN TrimRight(SubSeq(s, 1, Len(s) - 1)) ELSE s

\* JSON.parse of a text: type "SyntaxError" when it throws; content is the
\* value of the content property ("undefined" when there is none).
JSONparse(text) ==
  LET t == TrimRight(TrimLeft(text))
  IN IF Len(t) # 1 THEN [type |-> "SyntaxError", content |-> "undefined"]
     ELSE IF t[1] = HELLO THEN [type |-> "object", content |-> "hello"]
     ELSE IF t[1] = EMPTYC THEN [type |-> "object", content |-> ""]
     ELSE IF t[1] = NOC THEN [type |-> "object", content |-> "undefined"]
     ELSE IF t[1] = NULLJ THEN [type |-> "null", content |-> "undefined"]
     ELSE IF t[1] = GAME1 THEN [type |-> "array", content |-> "undefined"]
     ELSE [type |-> "SyntaxError", content |-> "undefined"]

\* ------------------------------------------------------------------ onEvent

\* const dataMap = new Map(): has is whether the key gameInfo is set.
NoData == [has |-> FALSE, gameInfo |-> <<>>]

\* onEvent that broadcasts whenever content is a string, the empty string
\* included.
onEventBroadcastsEmpty(event, dm) ==
  LET dm1 == IF event.event = <<"game">>
             THEN [has |-> TRUE, gameInfo |-> event.data]
             ELSE dm
  IN IF event.event = <<"log">>
     THEN LET parsed == JSONparse(event.data)
          IN IF parsed.type \in {"SyntaxError", "null"}
             THEN [dataMap |-> dm1, broadcast |-> <<>>, threw |-> TRUE]
             ELSE [dataMap |-> dm1,
                   broadcast |-> IF parsed.content # "undefined"
                                 THEN <<parsed.content>>
                                 ELSE <<>>,
                   threw |-> FALSE]
     ELSE [dataMap |-> dm1, broadcast |-> <<>>, threw |-> FALSE]

\* onEvent that stores the data of every event, whatever its name.
onEventStoresAnyEvent(event, dm) ==
  LET dm1 == [has |-> TRUE, gameInfo |-> event.data]
  IN IF event.event = <<"log">>
     THEN LET parsed == JSONparse(event.data)
          IN IF parsed.type \in {"SyntaxError", "null"}
             THEN [dataMap |-> dm1, broadcast |-> <<>>, threw |-> TRUE]
             ELSE [dataMap |-> dm1,
                   broadcast |-> IF parsed.content \notin {"undefined", ""}
                                 THEN <<parsed.content>>
                                 ELSE <<>>,
                   threw |-> FALSE]
     ELSE [dataMap |-> dm1, broadcast |-> <<>>, threw |-> FALSE]

\* The onEvent callback: the new dataMap, the messages broadcast, and
\* whether the callback threw.
onEvent(event, dm) ==
  LET dm1 == IF event.event = <<"game">>
             THEN [has |-> TRUE, gameInfo |-> event.data]
             ELSE dm
  IN IF event.event = <<"log">>
     THEN LET parsed == JSONparse(event.data)
          IN IF parsed.type \in {"SyntaxError", "null"}
             THEN [dataMap |-> dm1, broadcast |-> <<>>, threw |-> TRUE]
             ELSE [dataMap |-> dm1,
                   broadcast |-> IF parsed.content \notin {"undefined", ""}
                                 THEN <<parsed.content>>
                                 ELSE <<>>,
                   threw |-> FALSE]
     ELSE [dataMap |-> dm1, broadcast |-> <<>>, threw |-> FALSE]

\* The closure.status action: "threw" when JSON.parse or the destructuring
\* of [{status}] throws, else the three lines.
closureStatus(dm) ==
  IF ~dm.has THEN "threw"
  ELSE IF JSONparse(dm.gameInfo).type = "array"
       THEN "A/5/online"
       ELSE "threw"

\* ------------------------------------------------------- eventsource-parser

\* createParser(): the state of a new parser.
createParser == [incompleteLine |-> <<>>, data |-> <<>>, eventType |-> <<>>]

RECURSIVE splitLines(_)
splitLines(text) ==
  IF \A i \in 1..Len(text) : text[i] # LF
  THEN [complete |-> <<>>, incomplete |-> text]
  ELSE LET k == CHOOSE i \in 1..Len(text) :
                  text[i] = LF /\ \A j \in 1..(i - 1) : text[j] # LF
           r == splitLines(SubSeq(text, k + 1, Len(text)))
       IN [complete |-> <<SubSeq(text, 1, k - 1)>> \o r.complete,
           incomplete |-> r.incomplete]

\* The field name and value of a line that is neither empty nor a comment.
FieldOf(line) ==
  IF \E i \in 1..Len(line) : line[i] = ":"
  THEN LET k == CHOOSE i \in 1..Len(line) :
                  line[i] = ":" /\ \A j \in 1..(i - 1) : line[j] # ":"
           off == IF k < Len(line) /\ line[k + 1] = SP THEN 2 ELSE 1
       IN [field |-> SubSeq(line, 1, k - 1),
           value |-> SubSeq(line, k + off, Len(line))]
  ELSE [field |-> line, value |-> <<>>]

\* The state a run of parseLine calls threads through: the parser's event
\* buffers, the application state the callbacks write, and what was
\* dispatched. Once a callback has thrown, nothing more is processed.
RECURSIVE parseLines(_, _)
parseLines(st, lines) ==
  IF lines = <<>> \/ st.threw THEN st
  ELSE LET line == Head(lines)
       IN IF line = <<>>
          THEN \* dispatchEvent
               IF st.data = <<>>
               THEN parseLines([st EXCEPT !.eventType = <<>>], Tail(lines))
               ELSE LET ev == [event |-> st.eventType,
                               data |-> IF st.data[Len(st.data)] = LF
                                        THEN SubSeq(st.data, 1, Len(st.data) - 1)
                                        ELSE st.data]
                        r == onEvent(ev, st.dataMap)
                    IN IF r.threw
                       THEN [st EXCEPT !.dataMap = r.dataMap,
                                       !.events = Append(@, ev),
                                       !.threw = TRUE]
                       ELSE parseLines([st EXCEPT !.dataMap = r.dataMap,
                                                  !.events = Append(@, ev),
                                                  !.broadcasts = @ \o r.broadcast,
                                                  !.data = <<>>,
                                                  !.eventType = <<>>],
                                       Tail(lines))
          ELSE IF Head(line) = ":"
          THEN parseLines(st, Tail(lines))
          ELSE LET f == FieldOf(line)
               IN IF f.field = <<"event">>
                  THEN parseLines([st EXCEPT !.eventType = f.value], Tail(lines))
                  ELSE IF f.field = <<"data">>
                  THEN parseLines([st EXCEPT !.data = @ \o f.value \o <<LF>>],
                                  Tail(lines))
                  ELSE parseLines([st EXCEPT !.errors = @ + 1], Tail(lines))

\* parser.feed(text) on parser p with application state dm: the parser
\* after the call, the dataMap, what onEvent received and broadcast, the
\* number of onError calls, and whether onEvent threw out of feed.
feed(p, dm, text) ==
  LET s == splitLines(p.incompleteLine \o text)
      r == parseLines([data |-> p.data, eventType |-> p.eventType,
                       dataMap |-> dm, events |-> <<>>, broadcasts |-> <<>>,
                       errors |-> 0, threw |-> FALSE],
                      s.complete)
  IN [parser |-> [incompleteLine |-> IF r.threw THEN p.incompleteLine
                                     ELSE s.incomplete,
                  data |-> r.data,
                  eventType |-> r.eventType],
      dataMap |-> r.dataMap,
      events |-> r.events,
      broadcasts |-> r.broadcasts,
      errors |-> r.errors,
      threw |-> r.threw]

\* ---------------------------------------------------------------- the wire

\* One complete SSE record: event: <name> LF data: <payload> LF LF.
Record(name, payload) ==
  <<"event", ":", SP, name, LF, "data", ":", SP, payload, LF, LF>>

\* Chunks of bytes the stream may deliver.
ControlChunks == {Record("game", GAME1), Record("log", HELLO), Record("log", BAD)}

Chunks ==
  { Record("game", GAME1), Record("game", BAD),
    Record("log", HELLO), Record("log", EMPTYC), Record("log", BAD),
    Record("log", NOC), Record("log", NULLJ), Record("ping", HELLO),
    <<"event", ":", SP, "log", LF, "data", ":", SP, HELLO, LF>>,
    <<LF>>,
    <<"data", ":", SP, LeadByte>>,
    <<ContByte, LF, LF>>,
    <<":", "keepalive", LF, "foo", LF>> }

\* -------------------------------------------------------------------- state

VARIABLES
  pc,                \* where apply() is: Init, StartupLogin, Connecting,
                     \* Streaming, Refreshing, BackingOff, Stopped, Crashed
  lifecycleAborted,  \* lifecycle.signal.aborted
  streamController,  \* "null", "live" or "aborted"
  connOpen,          \* stream connections open or being opened
  token,             \* let token
  fileToken,         \* content of the token file
  urlToken,          \* gameUrl.searchParams.get("token")
  lastLogin,         \* the token of the latest completed login ("" if none)
  probe,             \* the getMe request: none, pending, ok, rejected
  reconnectAttempts, \* let reconnectAttempts
  failRun,           \* failures caught since the last successful connect
  eofRun,            \* consecutive (connect, end-of-stream) cycles
  delay,             \* const delay of the catch block (0 outside it)
  err,               \* the error of the catch block (NoErr outside it)
  refreshed,         \* outcome of the refresh of this catch block
  decPending,        \* bytes the session's TextDecoder holds
  parser,            \* the state of const parser
  dataMap,           \* const dataMap
  events,            \* events onEvent received in this step
  broadcasts,        \* messages ctx.broadcast received in this step
  statusReply        \* what closure.status returned in this step

vars == <<pc, lifecycleAborted, streamController, connOpen, token, fileToken,
          urlToken, lastLogin, probe, reconnectAttempts, failRun, eofRun,
          delay, err, refreshed, decPending, parser, dataMap, events,
          broadcasts, statusReply>>

tokenVars == <<token, fileToken, urlToken, lastLogin>>
retryVars == <<reconnectAttempts, failRun, delay>>
decoderVars == <<decPending, parser, dataMap>>

NoErr == [origin |-> "none", what |-> "none", status |-> 0]

NoOutput == events' = <<>> /\ broadcasts' = <<>> /\ statusReply' = "none"

Init ==
  /\ pc = "Init"
  /\ lifecycleAborted = FALSE
  /\ streamController = "null"
  /\ connOpen = 0
  /\ token = ""
  /\ fileToken \in FileTokens
  /\ urlToken = ""
  /\ lastLogin = ""
  /\ probe = "none"
  /\ reconnectAttempts = 0
  /\ failRun = 0
  /\ eofRun = 0
  /\ delay = 0
  /\ err = NoErr
  /\ refreshed = "none"
  /\ decPending = <<>>
  /\ parser = createParser
  /\ dataMap = NoData
  /\ events = <<>>
  /\ broadcasts = <<>>
  /\ statusReply = "none"

\* ------------------------------------------------------------ the controller

isAuthError(e) == e.status = 401 \/ e.status = 403

\* BackoffBase without the ceiling.
BackoffBaseNoCeiling(n) == 1000 * 2 ^ Min(n, 5)

\* const base of the backoff for attempt number n.
BackoffBase(n) == Min(30000, 1000 * 2 ^ Min(n, 5))

\* while (!lifecycle.signal.aborted) { await connectOnce() ...: the loop
\* test and connectOnce up to its await of http.get.
EnterLoop ==
  IF lifecycleAborted
  THEN pc' = "Stopped" /\ UNCHANGED <<streamController, connOpen>>
  ELSE /\ pc' = "Connecting"
       /\ streamController' = "live"
       /\ connOpen' = connOpen + 1

\* ConnectOnceFinally without streamController = null.
ConnectOnceFinallyKeepsHandle == UNCHANGED streamController

\* connectOnce's finally block.
ConnectOnceFinally == streamController' = "null"

\* Backoff that computes the delay before it increments the counter.
BackoffLateIncrement(j) ==
  /\ reconnectAttempts' = reconnectAttempts + 1
  /\ delay' = Min(30000, 1000 * 2 ^ Min(reconnectAttempts, 5)) + j
  /\ pc' = IF lifecycleAborted THEN "Stopped" ELSE "BackingOff"

\* reconnectAttempts++, the delay, and sleep(delay, lifecycle.signal) up
\* to its await: sleep rejects at once when the signal is aborted.
Backoff(j) ==
  /\ reconnectAttempts' = reconnectAttempts + 1
  /\ delay' = BackoffBase(reconnectAttempts + 1) + j
  /\ pc' = IF lifecycleAborted THEN "Stopped" ELSE "BackingOff"

\* Catch that handles an authentication error like any other error.
CatchSkipsRefresh(e, j) ==
  /\ err' = e
  /\ refreshed' = "none"
  /\ IF lifecycleAborted
     THEN pc' = "Stopped" /\ UNCHANGED retryVars
     ELSE /\ failRun' = failRun + 1
          /\ Backoff(j)

\* The catch block for error e up to its first await.
Catch(e, j) ==
  /\ err' = e
  /\ refreshed' = "none"
  /\ IF lifecycleAborted
     THEN pc' = "Stopped" /\ UNCHANGED retryVars
     ELSE /\ failRun' = failRun + 1
          /\ IF isAuthError(e)
             THEN pc' = "Refreshing" /\ UNCHANGED <<reconnectAttempts, delay>>
             ELSE Backoff(j)

\* apply() from the read of the token file to its first await.
Apply ==
  /\ pc = "Init"
  /\ token' = fileToken
  /\ IF fileToken # ""
     THEN /\ probe' = "pending"
          /\ urlToken' = fileToken
          /\ EnterLoop
     ELSE /\ pc' = "StartupLogin"
          /\ UNCHANGED <<probe, urlToken, streamController, connOpen>>
  /\ UNCHANGED <<lifecycleAborted, fileToken, lastLogin, retryVars, eofRun,
                 err, refreshed, decoderVars>>
  /\ NoOutput

\* StartupLoginOK without fs.writeFileSync(tokenPath, token).
StartupLoginOKNoWrite(t) ==
  /\ pc = "StartupLogin"
  /\ token' = t
  /\ lastLogin' = t
  /\ urlToken' = t
  /\ EnterLoop
  /\ UNCHANGED <<lifecycleAborted, fileToken, probe, retryVars, eofRun, err,
                 refreshed, decoderVars>>
  /\ NoOutput

\* The startup login returns t and the token file is written.
StartupLoginOK(t) ==
  /\ pc = "StartupLogin"
  /\ token' = t
  /\ lastLogin' = t
  /\ fileToken' = t
  /\ urlToken' = t
  /\ EnterLoop
  /\ UNCHANGED <<lifecycleAborted, probe, retryVars, eofRun, err, refreshed,
                 decoderVars>>
  /\ NoOutput

\* The startup login returns t and writeFileSync throws: apply() rejects.
StartupWriteFails(t) ==
  /\ pc = "StartupLogin"
  /\ token' = t
  /\ lastLogin' = t
  /\ pc' = "Crashed"
  /\ UNCHANGED <<lifecycleAborted, streamController, connOpen, fileToken,
                 urlToken, probe, retryVars, eofRun, err, refreshed,
                 decoderVars>>
  /\ NoOutput

\* The startup login fails: apply() rejects.
StartupLoginFails ==
  /\ pc = "StartupLogin"
  /\ pc' = "Crashed"
  /\ UNCHANGED <<lifecycleAborted, streamController, connOpen, tokenVars,
                 probe, retryVars, eofRun, err, refreshed, decoderVars>>
  /\ NoOutput

\* ProbeRejects that clears the URL's token as well.
ProbeRejectsClearsUrl ==
  /\ probe = "pending"
  /\ probe' = "rejected"
  /\ token' = ""
  /\ urlToken' = ""
  /\ UNCHANGED <<pc, lifecycleAborted, streamController, connOpen, fileToken,
                 lastLogin, retryVars, eofRun, err, refreshed, decoderVars>>
  /\ NoOutput

\* getMe(token).catch(...): the probe is rejected.
ProbeRejects ==
  /\ probe = "pending"
  /\ probe' = "rejected"
  /\ token' = ""
  /\ UNCHANGED <<pc, lifecycleAborted, streamController, connOpen, fileToken,
                 urlToken, lastLogin, retryVars, eofRun, err, refreshed,
                 decoderVars>>
  /\ NoOutput

\* The probe succeeds: nothing consumes it.
ProbeResolves ==
  /\ probe = "pending"
  /\ probe' = "ok"
  /\ UNCHANGED <<pc, lifecycleAborted, streamController, connOpen, tokenVars,
                 retryVars, eofRun, err, refreshed, decoderVars>>
  /\ NoOutput

\* ConnectOK without reconnectAttempts = 0.
ConnectOKNoReset ==
  /\ pc = "Connecting"
  /\ streamController = "live"
  /\ pc' = "Streaming"
  /\ failRun' = 0
  /\ decPending' = <<>>
  /\ UNCHANGED <<lifecycleAborted, streamController, connOpen, tokenVars,
                 probe, reconnectAttempts, eofRun, delay, err, refreshed,
                 parser, dataMap>>
  /\ NoOutput

\* http.get resolves: the stream is connected.
ConnectOK ==
  /\ pc = "Connecting"
  /\ streamController = "live"
  /\ pc' = "Streaming"
  /\ reconnectAttempts' = 0
  /\ failRun' = 0
  /\ decPending' = <<>>
  /\ UNCHANGED <<lifecycleAborted, streamController, connOpen, tokenVars,
                 probe, eofRun, delay, err, refreshed, parser, dataMap>>
  /\ NoOutput

\* http.get rejects with an error of status s.
ConnectFails(s, j, maxRun) ==
  /\ pc = "Connecting"
  /\ streamController = "live"
  /\ reconnectAttempts < maxRun
  /\ ConnectOnceFinally
  /\ connOpen' = connOpen - 1
  /\ eofRun' = 0
  /\ Catch([origin |-> "connect", what |-> "http", status |-> s], j)
  /\ UNCHANGED <<lifecycleAborted, tokenVars, probe, decoderVars>>
  /\ NoOutput

\* A chunk arrives: the body of the for await loop, and what follows when
\* onEvent throws out of parser.feed.
StreamChunk(c, j) ==
  /\ pc = "Streaming"
  /\ streamController = "live"
  /\ LET d == decode(decPending, c)
         r == feed(parser, dataMap, d.text)
     IN /\ Len(r.parser.data) <= MaxData
        /\ Len(r.parser.incompleteLine) <= MaxLine
        /\ parser' = r.parser
        /\ dataMap' = r.dataMap
        /\ events' = r.events
        /\ broadcasts' = r.broadcasts
        /\ IF r.threw
           THEN /\ decPending' = <<>>
                /\ ConnectOnceFinally
                /\ connOpen' = connOpen - 1
                /\ eofRun' = 0
                /\ Catch([origin |-> "stream", what |-> "onEvent",
                          status |-> 0], j)
           ELSE /\ decPending' = d.pending
                /\ UNCHANGED <<pc, streamController, connOpen, retryVars,
                               eofRun, err, refreshed>>
  /\ statusReply' = "none"
  /\ UNCHANGED <<lifecycleAborted, tokenVars, probe>>

\* The end of the stream: the flush of the TextDecoder, a last feed, and
\* throw new Error("stream ended").
EndOfStream(j) ==
  LET tail == decodeTail(decPending)
      r == IF tail # <<>> THEN feed(parser, dataMap, tail)
           ELSE [parser |-> parser, dataMap |-> dataMap, events |-> <<>>,
                 broadcasts |-> <<>>, errors |-> 0, threw |-> FALSE]
  IN /\ Len(r.parser.incompleteLine) <= MaxLine
     /\ parser' = r.parser
     /\ dataMap' = r.dataMap
     /\ events' = r.events
     /\ broadcasts' = r.broadcasts
     /\ decPending' = <<>>
     /\ ConnectOnceFinally
     /\ Catch([origin |-> "stream",
               what |-> IF r.threw THEN "onEvent" ELSE "stream ended",
               status |-> 0], j)
     /\ statusReply' = "none"

\* The remote end closes the stream.
StreamEnds(j, maxRun) ==
  /\ pc = "Streaming"
  /\ streamController = "live"
  /\ eofRun < maxRun
  /\ eofRun' = eofRun + 1
  /\ connOpen' = connOpen - 1
  /\ EndOfStream(j)
  /\ UNCHANGED <<lifecycleAborted, tokenVars, probe>>

\* A read of the stream fails with an error of status s.
StreamFails(s, j) ==
  /\ pc = "Streaming"
  /\ streamController = "live"
  /\ decPending' = <<>>
  /\ ConnectOnceFinally
  /\ connOpen' = connOpen - 1
  /\ eofRun' = 0
  /\ Catch([origin |-> "stream", what |-> "http", status |-> s], j)
  /\ UNCHANGED <<lifecycleAborted, tokenVars, probe, parser, dataMap>>
  /\ NoOutput

\* RefreshOK without gameUrl.searchParams.set("token", token).
RefreshOKStaleUrl(t, j) ==
  /\ pc = "Refreshing"
  /\ token' = t
  /\ fileToken' = t
  /\ lastLogin' = t
  /\ refreshed' = "ok"
  /\ reconnectAttempts' = reconnectAttempts + 1
  /\ delay' = Min(30000, 1000 * 2 ^ Min(reconnectAttempts + 1, 5)) + j
  /\ pc' = IF lifecycleAborted THEN "Stopped" ELSE "BackingOff"
  /\ UNCHANGED <<lifecycleAborted, streamController, connOpen, urlToken,
                 probe, failRun, eofRun, err, decoderVars>>
  /\ NoOutput

\* refreshToken(): the login returns t and the token file is written.
RefreshOK(t, j) ==
  /\ pc = "Refreshing"
  /\ token' = t
  /\ fileToken' = t
  /\ urlToken' = t
  /\ lastLogin' = t
  /\ refreshed' = "ok"
  /\ Backoff(j)
  /\ UNCHANGED failRun
  /\ UNCHANGED <<lifecycleAborted, streamController, connOpen, probe, eofRun,
                 err, decoderVars>>
  /\ NoOutput

\* refreshToken(): the login returns t and writeFileSync throws.
RefreshWriteFails(t, j) ==
  /\ pc = "Refreshing"
  /\ token' = t
  /\ lastLogin' = t
  /\ refreshed' = "writeFailed"
  /\ Backoff(j)
  /\ UNCHANGED failRun
  /\ UNCHANGED <<lifecycleAborted, streamController, connOpen, fileToken,
                 urlToken, probe, eofRun, err, decoderVars>>
  /\ NoOutput

\* RefreshLoginFails with the catch around refreshToken() missing: the
\* rejection leaves apply().
RefreshLoginFailsUncaught(j) ==
  /\ pc = "Refreshing"
  /\ pc' = "Crashed"
  /\ refreshed' = "loginFailed"
  /\ UNCHANGED <<lifecycleAborted, streamController, connOpen, tokenVars,
                 probe, retryVars, eofRun, err, decoderVars>>
  /\ NoOutput

\* RefreshLoginFails that goes round the loop without the backoff.
RefreshLoginFailsSpins(j) ==
  /\ pc = "Refreshing"
  /\ refreshed' = "loginFailed"
  /\ EnterLoop
  /\ UNCHANGED <<lifecycleAborted, tokenVars, probe, retryVars, eofRun, err,
                 decoderVars>>
  /\ NoOutput

\* refreshToken(): the login fails.
RefreshLoginFails(j) ==
  /\ pc = "Refreshing"
  /\ refreshed' = "loginFailed"
  /\ Backoff(j)
  /\ UNCHANGED failRun
  /\ UNCHANGED <<lifecycleAborted, streamController, connOpen, tokenVars,
                 probe, eofRun, err, decoderVars>>
  /\ NoOutput

\* The timer of sleep fires: the catch block ends and the loop goes round.
TimerFires ==
  /\ pc = "BackingOff"
  /\ EnterLoop
  /\ err' = NoErr
  /\ refreshed' = "none"
  /\ delay' = 0
  /\ UNCHANGED <<lifecycleAborted, tokenVars, probe, reconnectAttempts,
                 failRun, eofRun, decoderVars>>
  /\ NoOutput

\* Dispose with a sleep that does not listen to the signal.
DisposeSleepIgnoresSignal ==
  /\ pc \in {"Connecting", "Streaming", "Refreshing", "BackingOff"}
  /\ ~lifecycleAborted
  /\ lifecycleAborted' = TRUE
  /\ IF pc \in {"BackingOff", "Refreshing"}
     THEN UNCHANGED <<pc, streamController, connOpen>>
     ELSE /\ streamController' = "aborted"
          /\ connOpen' = connOpen - 1
          /\ UNCHANGED pc
  /\ UNCHANGED <<tokenVars, probe, retryVars, eofRun, err, refreshed,
                 decoderVars>>
  /\ NoOutput

\* The dispose handler: lifecycle.abort() runs the abort listeners (of
\* connectOnce, of sleep), then streamController?.abort().
Dispose ==
  /\ pc \in {"Connecting", "Streaming", "Refreshing", "BackingOff"}
  /\ ~lifecycleAborted
  /\ lifecycleAborted' = TRUE
  /\ IF pc = "BackingOff"
     THEN pc' = "Stopped" /\ UNCHANGED <<streamController, connOpen>>
     ELSE IF pc = "Refreshing"
     THEN UNCHANGED <<pc, streamController, connOpen>>
     ELSE /\ streamController' = "aborted"
          /\ connOpen' = connOpen - 1
          /\ UNCHANGED pc
  /\ UNCHANGED <<tokenVars, probe, retryVars, eofRun, err, refreshed,
                 decoderVars>>
  /\ NoOutput

\* The aborted http.get or read rejects: finally, catch, break.
AbortRejects ==
  /\ pc \in {"Connecting", "Streaming"}
  /\ streamController = "aborted"
  /\ ConnectOnceFinally
  /\ decPending' = <<>>
  /\ Catch([origin |-> IF pc = "Connecting" THEN "connect" ELSE "stream",
            what |-> "aborted", status |-> 0], 0)
  /\ UNCHANGED <<lifecycleAborted, connOpen, tokenVars, probe, eofRun,
                 parser, dataMap>>
  /\ NoOutput

\* AbortBreaks without the test of lifecycle.signal.aborted: the chunk the
\* aborted stream yields is fed.
AbortBreaksFeedsChunk ==
  /\ pc = "Streaming"
  /\ streamController = "aborted"
  /\ LET r == feed(parser, dataMap, Record("game", GAME1))
     IN /\ parser' = r.parser
        /\ dataMap' = r.dataMap
        /\ events' = r.events
        /\ broadcasts' = r.broadcasts
  /\ decPending' = <<>>
  /\ ConnectOnceFinally
  /\ Catch([origin |-> "stream", what |-> "stream ended", status |-> 0], 0)
  /\ statusReply' = "none"
  /\ UNCHANGED <<lifecycleAborted, connOpen, tokenVars, probe, eofRun>>

\* The aborted stream yields a chunk or ends: the loop breaks on
\* lifecycle.signal.aborted without feeding, then the flush.
AbortBreaks ==
  /\ pc = "Streaming"
  /\ streamController = "aborted"
  /\ EndOfStream(0)
  /\ UNCHANGED <<lifecycleAborted, connOpen, tokenVars, probe, eofRun>>

\* The closure.status command.
StatusQuery ==
  /\ pc # "Init"
  /\ statusReply' = closureStatus(dataMap)
  /\ events' = <<>>
  /\ broadcasts' = <<>>
  /\ UNCHANGED <<pc, lifecycleAborted, streamController, connOpen, tokenVars,
                 probe, retryVars, eofRun, err, refreshed, decoderVars>>

\* ----------------------------------------------------------- specifications

LoginCompletes(tokens, jitters) ==
  \E t \in tokens, j \in jitters :
    RefreshOK(t, j) \/ RefreshWriteFails(t, j) \/ RefreshLoginFails(j)

\* What the program does after the startup probe is out of the way: every
\* action but the two of the probe, with inputs from the given sets.
NextWith(chunks, statuses, tokens, jitters, maxRun, maxEof) ==
  \/ Apply
  \/ \E t \in tokens : StartupLoginOK(t)
  \/ \E t \in tokens : StartupWriteFails(t)
  \/ StartupLoginFails
  \/ ConnectOK
  \/ \E s \in statuses, j \in jitters : ConnectFails(s, j, maxRun)
  \/ \E c \in chunks, j \in jitters : StreamChunk(c, j)
  \/ \E j \in jitters : StreamEnds(j, maxEof)
  \/ \E s \in statuses, j \in jitters : StreamFails(s, j)
  \/ LoginCompletes(tokens, jitters)
  \/ TimerFires
  \/ Dispose
  \/ AbortRejects
  \/ AbortBreaks
  \/ StatusQuery

\* Every controller input, a few chunks.
Next ==
  \/ NextWith(ControlChunks, Statuses, LoginTokens, JitterSamples,
              MaxAttempts, MaxEofRun)
  \/ ProbeRejects
  \/ ProbeResolves

Spec == Init /\ [][Next]_vars

\* The timer fires, a login request completes, and an aborted request
\* settles.
Fairness ==
  /\ WF_vars(TimerFires)
  /\ WF_vars(LoginCompletes(LoginTokens, JitterSamples))
  /\ WF_vars(AbortRejects \/ AbortBreaks)

FairSpec == Spec /\ Fairness

\* The program started on an empty token file (no probe is sent), with
\* every chunk and a few controller inputs.
DecoderInit == Init /\ fileToken = ""

DecoderNext ==
  NextWith(Chunks, {401, 500}, {"t1"}, {0}, MaxDecoderRun, MaxDecoderRun)

DecoderSpec == DecoderInit /\ [][DecoderNext]_vars

\* ------------------------------------------------------------------- claims

\* C1: the reconnect loop never gives up on its own. The loop is left
\* (Stopped) only once the lifecycle signal is aborted; and once a failure
\* is being handled (the token refresh or the backoff wait is in progress),
\* a new connection attempt follows unless the lifecycle signal is aborted.
C1_NeverGivesUp ==
  /\ [](pc = "Stopped" => lifecycleAborted)
  /\ (pc \in {"Refreshing", "BackingOff"})
       ~> (pc = "Connecting" \/ lifecycleAborted)

\* A connection attempt after three failures in a row.
C1_Witness ==
  /\ pc = "Connecting"
  /\ ~lifecycleAborted
  /\ reconnectAttempts = 3

\* C2: dispose stops the controller without a further connection attempt.
\* The step that aborts the lifecycle signal ends a backoff wait at once
\* (Stopped) and aborts the session's own signal and its connection when
\* one is being opened or is open; once the signal is aborted no connection
\* is opened; and the controller reaches Stopped.
C2_DisposeStops ==
  /\ [][(~lifecycleAborted /\ lifecycleAborted')
          => /\ (pc = "BackingOff" => pc' = "Stopped")
             /\ (pc \in {"Connecting", "Streaming"}
                   => streamController' = "aborted" /\ connOpen' = 0)]_vars
  /\ [][lifecycleAborted'
          => /\ connOpen' <= connOpen
             /\ (pc' = "Connecting" => pc = "Connecting")]_vars
  /\ (lifecycleAborted ~> pc = "Stopped")

\* Stopped after dispose aborted an open stream.
C2_Witness ==
  /\ pc = "Stopped"
  /\ lifecycleAborted
  /\ err.origin = "stream"
  /\ err.what = "aborted"

\* C3: at most one stream session at a time. At most one connection is
\* open or being opened; the handle streamController is set exactly while
\* connectOnce runs; none is open during the token refresh or the backoff
\* wait; and a connection is opened only when none is open and the handle
\* is cleared.
C3_OneSession ==
  /\ [](connOpen \in {0, 1})
  /\ [](streamController # "null" <=> pc \in {"Connecting", "Streaming"})
  /\ [](pc \in {"Refreshing", "BackingOff"}
          => connOpen = 0 /\ streamController = "null")
  /\ [][connOpen' > connOpen
          => connOpen = 0 /\ streamController = "null"]_vars

\* A second session streaming, after the first ended.
C3_Witness ==
  /\ pc = "Streaming"
  /\ connOpen = 1
  /\ streamController = "live"
  /\ eofRun = 1

\* C4: a successful connection resets the attempt counter: it is 0 while
\* streaming, and the backoff of a failure met while streaming uses attempt
\* number 1 (a delay of 2000 ms plus jitter).
C4_ConnectResets ==
  /\ (pc = "Streaming" => reconnectAttempts = 0)
  /\ (pc = "BackingOff" /\ err.origin = "stream"
        => reconnectAttempts = 1 /\ delay \in 2000..2499)

\* The backoff of an authentication failure met while streaming, after a
\* refresh.
C4_Witness ==
  /\ pc = "BackingOff"
  /\ err.origin = "stream"
  /\ err.status = 403
  /\ refreshed = "ok"
  /\ reconnectAttempts = 1
  /\ delay = 2499

\* C5: during the backoff wait the attempt counter is the number of
\* failures since the last successful connection, and the delay is
\* min(30000, 1000 * 2^min(n, 5)) plus a jitter in [0, 500) for that
\* number n; while a refresh is in progress the failure that caused it is
\* not counted yet; the jitter-free part never decreases with n and never
\* exceeds 30000.
C5_BackoffDelay ==
  /\ (pc = "BackingOff"
        => /\ failRun >= 1
           /\ reconnectAttempts = failRun
           /\ \E jitter \in 0..499 :
                delay = Min(30000, 1000 * 2 ^ Min(failRun, 5)) + jitter)
  /\ (pc = "Refreshing" => reconnectAttempts = failRun - 1)
  /\ \A n \in 1..MaxAttempts :
       /\ BackoffBase(n) <= BackoffBase(n + 1)
       /\ BackoffBase(n) <= 30000

\* The sixth failure in a row: the ceiling plus the largest jitter.
C5_Witness ==
  /\ pc = "BackingOff"
  /\ failRun = 6
  /\ delay = 30499

\* C6 as stated: the k-th end of stream in a row backs off with attempt
\* number k.
C6_AttemptsGrowOverEofs ==
  (pc = "BackingOff" /\ err.what = "stream ended")
    => reconnectAttempts = eofRun

\* C6, amended: every end of stream in a row backs off with attempt number
\* 1, the connection before it having reset the counter; and when the
\* backoff after the third ends without dispose, a connection attempt is
\* made.
C6_EofAttemptIsOne ==
  /\ []((pc = "BackingOff" /\ err.what = "stream ended")
          => reconnectAttempts = 1 /\ delay \in 2000..2499)
  /\ [][(pc = "BackingOff" /\ eofRun = 3 /\ pc' # "BackingOff"
           /\ ~lifecycleAborted')
          => pc' = "Connecting" /\ connOpen' = 1 /\ eofRun' = 3]_vars

\* The fourth connection attempt, after three ends of stream in a row.
C6_Witness ==
  /\ pc = "Connecting"
  /\ eofRun = 3
  /\ reconnectAttempts = 1

\* C7: the step that completes a refresh (login and file write succeeded)
\* sets the in-memory token, the token file and the URL's token to the
\* token the login returned, and opens no connection; the connection
\* attempt that follows the backoff of that refresh is made with that token
\* in the URL and in the file; and a login is only started for an error of
\* status 401 or 403.
C7_RefreshReplacesToken ==
  /\ [][(pc = "Refreshing" /\ refreshed' = "ok")
          => /\ lastLogin' \in LoginTokens
             /\ token' = lastLogin'
             /\ fileToken' = lastLogin'
             /\ urlToken' = lastLogin'
             /\ pc' \in {"BackingOff", "Stopped"}
             /\ connOpen' = 0]_vars
  /\ [][(pc = "BackingOff" /\ refreshed = "ok" /\ pc' = "Connecting")
          => urlToken' = lastLogin /\ fileToken' = lastLogin]_vars
  /\ [](pc = "Refreshing" => err.status \in {401, 403})
  /\ [][lastLogin' # lastLogin
          => pc \in {"StartupLogin", "Refreshing"}]_vars

\* The backoff after a 401 met while streaming, refreshed to token t2.
C7_Witness ==
  /\ pc = "BackingOff"
  /\ refreshed = "ok"
  /\ err.origin = "stream"
  /\ err.status = 401
  /\ lastLogin = "t2"
  /\ token = "t2"
  /\ fileToken = "t2"
  /\ urlToken = "t2"

\* A log event whose data JSON.parse rejects, or whose parsed value has no
\* properties to destructure.
MalformedLog(ev) ==
  /\ ev.event = <<"log">>
  /\ JSONparse(ev.data).type \in {"SyntaxError", "null"}

\* A game event whose data is no JSON status payload.
MalformedGame(ev) ==
  /\ ev.event = <<"game">>
  /\ JSONparse(ev.data).type # "array"

\* C8 as stated: a step of an open session that dispatches a malformed log
\* event leaves the session streaming on the same connection, with no
\* failure caught and no backoff.
C8_MalformedLogDropped ==
  [][(pc = "Streaming" /\ streamController = "live"
        /\ \E i \in 1..Len(events') : MalformedLog(events'[i]))
       => /\ pc' = "Streaming"
          /\ streamController' = "live"
          /\ connOpen' = connOpen
          /\ UNCHANGED <<reconnectAttempts, failRun, err>>]_vars

\* C9 as stated: a step that dispatches a malformed game event leaves the
\* dataMap, and so the reply of closure.status, unchanged.
C9_MalformedGameDropped ==
  [][(\E i \in 1..Len(events') : MalformedGame(events'[i]))
       => /\ dataMap' = dataMap
          /\ closureStatus(dataMap') = closureStatus(dataMap)]_vars

\* C10 as stated: nothing of a connection that has ended is left for the
\* next session to decode with: once the stream has ended, the parser holds
\* no unfinished line, no data and no event name.
C10_FreshParserPerSession ==
  (pc = "BackingOff" /\ err.what = "stream ended") => parser = createParser

\* C11: startup on an empty token file. The startup path goes to the login
\* without sending the identity probe and without opening a connection;
\* the step that completes the login is the first login (none completed
\* before it), and it writes the returned token to the token file, puts it
\* in the stream URL and opens the first connection; the probe is never
\* sent afterwards.
C11_EmptyFileStartup ==
  /\ [][(pc = "Init" /\ fileToken = "")
          => /\ pc' = "StartupLogin"
             /\ probe' = "none"
             /\ lastLogin' = ""
             /\ connOpen' = 0]_vars
  /\ [](pc = "StartupLogin"
          => probe = "none" /\ lastLogin = "" /\ connOpen = 0)
  /\ [][(pc = "StartupLogin" /\ pc' = "Connecting")
          => /\ lastLogin' \in LoginTokens
             /\ token' = lastLogin'
             /\ fileToken' = lastLogin'
             /\ urlToken' = lastLogin'
             /\ connOpen' = 1
             /\ reconnectAttempts' = 0]_vars
  /\ [][(pc # "Init" /\ probe = "none") => probe' = "none"]_vars

\* The first connection attempt after a startup login that returned t2.
C11_Witness ==
  /\ pc = "Connecting"
  /\ probe = "none"
  /\ err = NoErr
  /\ failRun = 0
  /\ eofRun = 0
  /\ token = "t2"
  /\ fileToken = "t2"
  /\ urlToken = "t2"

\* C12 as stated: no connection is open or being opened with a token in
\* the URL that the identity probe has rejected; the URL of a connection
\* then carries a token obtained through login.
C12_NoRejectedTokenOnConnection ==
  (probe = "rejected" /\ connOpen = 1) => urlToken \in LoginTokens

\* C13 as stated: the connection attempt that follows the backoff of a
\* refresh whose file write failed is made with the newly obtained token
\* in the stream URL.
C13_WriteFailureKeepsNewToken ==
  [][(pc = "BackingOff" /\ refreshed = "writeFailed" /\ pc' = "Connecting")
       => urlToken' = lastLogin]_vars

\* A log event whose data parses to an object with a non-empty content.
NotifiableLog(ev) ==
  /\ ev.event = <<"log">>
  /\ JSONparse(ev.data).type = "object"
  /\ JSONparse(ev.data).content \notin {"undefined", ""}

\* The content of each notifiable log event of evs, in order.
Contents(evs) ==
  LET sel == SelectSeq(evs, NotifiableLog)
  IN [i \in 1..Len(sel) |-> JSONparse(sel[i].data).content]

\* C14: what a step broadcasts is exactly the content of each log event
\* with a non-empty content that the step dispatched, once each and in
\* order: a log event with an empty or missing content, a game event and
\* an event of any other name broadcast nothing.
C14_NotifierCalls == broadcasts = Contents(events)

\* A log event with content hello was dispatched and broadcast once.
C14_Witness ==
  /\ Len(events) = 1
  /\ NotifiableLog(events[1])
  /\ broadcasts = <<"hello">>

\* The last game event of evs (evs holds one).
LastGame(evs) ==
  evs[CHOOSE i \in 1..Len(evs) :
        /\ evs[i].event = <<"game">>
        /\ \A k \in (i + 1)..Len(evs) : evs[k].event # <<"game">>]

\* C15: the dataMap has no gameInfo or holds the data of the latest game
\* event dispatched: it starts without one; a step that dispatches a game
\* event sets it to the data of the last one it dispatched; every other
\* step (log and other events, status queries, failures, backoff, refresh,
\* reconnects, dispose) leaves it unchanged.
C15_CacheIsLatestGame ==
  /\ (pc = "Init" => dataMap = NoData)
  /\ [](~dataMap.has => dataMap = NoData)
  /\ [][IF \E i \in 1..Len(events') : events'[i].event = <<"game">>
        THEN dataMap' = [has |-> TRUE, gameInfo |-> LastGame(events').data]
        ELSE dataMap' = dataMap]_vars

\* A log event dispatched after a game event left the snapshot in place.
C15_Witness ==
  /\ dataMap = [has |-> TRUE, gameInfo |-> <<GAME1>>]
  /\ Len(events) = 1
  /\ events[1].event = <<"log">>

\* C16 as stated: a status query made while the dataMap has no gameInfo
\* replies "no data yet".
C16_NoDataOutcome ==
  (statusReply # "none" /\ ~dataMap.has) => statusReply = "no data yet"

\* C17: the step in which the login of a refresh fails leaves the
\* in-memory token, the token file and the URL's token unchanged, ends in
\* the backoff wait (or in Stopped when the lifecycle signal is aborted)
\* with the attempt counter incremented and the delay computed for it, and
\* opens no connection; the connection attempt after it leaves a backoff
\* wait of at least 2000 ms with the same tokens in the file and the URL;
\* and no connection attempt is ever made straight from a refresh.
C17_LoginFailureBacksOff ==
  /\ [][(pc = "Refreshing" /\ refreshed' = "loginFailed")
          => /\ UNCHANGED tokenVars
             /\ pc' \in {"BackingOff", "Stopped"}
             /\ (pc' = "Stopped" => lifecycleAborted)
             /\ reconnectAttempts' = reconnectAttempts + 1
             /\ delay' - BackoffBase(reconnectAttempts') \in 0..499
             /\ connOpen' = 0
             /\ streamController' = "null"]_vars
  /\ [][(pc = "BackingOff" /\ refreshed = "loginFailed"
           /\ pc' = "Connecting")
          => /\ delay >= 2000
             /\ reconnectAttempts >= 1
             /\ UNCHANGED <<fileToken, urlToken>>]_vars
  /\ [][pc = "Refreshing" => pc' # "Connecting"]_vars

\* The backoff after the second authentication failure in a row whose
\* login failed.
C17_Witness ==
  /\ pc = "BackingOff"
  /\ refreshed = "loginFailed"
  /\ err.status = 401
  /\ reconnectAttempts = 2
  /\ delay = 4000

\* C18 as stated: a refresh that obtained and persisted a new token goes
\* straight to a connection attempt, and the backoff wait is entered from
\* a refresh only when the refresh failed.
C18_RefreshThenConnect ==
  /\ [][(pc = "Refreshing" /\ refreshed' = "ok" /\ ~lifecycleAborted)
          => pc' = "Connecting"]_vars
  /\ [][(pc = "Refreshing" /\ pc' = "BackingOff")
          => refreshed' # "ok"]_vars

\* C18, amended: a failure of a session, the lifecycle signal not aborted,
\* leads to the refresh when it is an authentication failure and to the
\* backoff wait otherwise; a refresh, whether it succeeded or failed, ends
\* in the backoff wait; the backoff wait ends in a connection attempt; a
\* connection attempt is made only at startup or from the backoff wait;
\* and the loop is left only with the lifecycle signal aborted.
C18_Transitions ==
  /\ [][(pc \in {"Connecting", "Streaming"}
           /\ pc' \notin {"Connecting", "Streaming"})
          => IF lifecycleAborted THEN pc' = "Stopped"
             ELSE IF err'.status \in {401, 403} THEN pc' = "Refreshing"
             ELSE pc' = "BackingOff"]_vars
  /\ [][(pc = "Refreshing" /\ pc' # "Refreshing")
          => /\ refreshed' \in {"ok", "writeFailed", "loginFailed"}
             /\ pc' = IF lifecycleAborted THEN "Stopped" ELSE "BackingOff"]_vars
  /\ [][(pc = "BackingOff" /\ pc' # "BackingOff")
          => pc' = IF lifecycleAborted' THEN "Stopped" ELSE "Connecting"]_vars
  /\ [][(pc' = "Connecting" /\ pc # "Connecting")
          => pc \in {"Init", "StartupLogin", "BackingOff"}]_vars

\* A connection attempt after an authentication failure met while
\* streaming, a successful refresh and the backoff wait.
C18_Witness ==
  /\ pc = "Connecting"
  /\ lastLogin \in LoginTokens
  /\ urlToken = lastLogin
  /\ reconnectAttempts = 1
  /\ failRun = 1
  /\ eofRun = 0
  /\ dataMap.has

\* C19: while a connection is being opened or is open, and through the
\* refresh and the backoff wait between connections, the URL's token is
\* not empty: it is the token the file held at startup or one a login
\* returned, also after the startup probe has cleared the in-memory token.
C19_UrlTokenNonEmpty ==
  pc \in {"Connecting", "Streaming", "Refreshing", "BackingOff"}
    => /\ urlToken # ""
       /\ urlToken \in (FileTokens \cup LoginTokens)

\* A reconnect made after the probe's callback cleared the in-memory
\* token.
C19_Witness ==
  /\ pc = "Connecting"
  /\ probe = "rejected"
  /\ token = ""
  /\ urlToken = "t0"
  /\ reconnectAttempts = 1

\* C20: once the lifecycle signal is aborted no step dispatches an event,
\* broadcasts or changes the dataMap, the end-of-stream flush of the
\* TextDecoder included; what the parser has buffered as data and event
\* name stays as it is.
C20_NoDispatchAfterAbort ==
  [][lifecycleAborted'
       => /\ events' = <<>>
          /\ broadcasts' = <<>>
          /\ dataMap' = dataMap
          /\ parser'.data = parser.data
          /\ parser'.eventType = parser.eventType]_vars

\* Stopped after dispose, the flush of a pending lead byte having been fed
\* to the parser.
C20_Witness ==
  /\ pc = "Stopped"
  /\ lifecycleAborted
  /\ parser.incompleteLine = <<"data", ":", SP, FFFD>>

====
